---- MODULE Spec2Model ----
(***************************************************************************)
(* LoveConnect backend: the User model's matching logic                    *)
(* (src/models/User.js): isGenderCompatibleWith, the age virtual and the   *)
(* candidate query findCompatibleUsers, evaluated by the user store.       *)
(*                                                                         *)
(* Time is counted in hours since 1970-01-01T00:00Z (a Date's getTime()    *)
(* divided by 3,600,000); local time is taken to be UTC.  Coordinates are  *)
(* <<longitude, latitude>> in hundredths of a degree.                      *)
(***************************************************************************)
EXTENDS Integers, Sequences, FiniteSets, TLC

VARIABLES users, now, result, compat, distance

vars == <<users, now, result, compat, distance>>

-----------------------------------------------------------------------------
(* Bounds of the model.                                                    *)

NumUsers == 3

MaxInterestedIn == 1

Ids == 1..NumUsers

-----------------------------------------------------------------------------
(* Schema enumerations and defaults.                                       *)

GenderEnum ==
    {"homme", "femme", "homme_transgenre", "femme_transgenre",
     "non_binaire", "genre_fluide", "autre", "prefere_ne_pas_dire"}

InterestedInEnum ==
    {"homme", "femme", "homme_transgenre", "femme_transgenre",
     "non_binaire", "genre_fluide", "autre", "tous"}

MoodEnum ==
    {"amoureux", "coup_de_foudre", "romantique", "seul", "furieux", "timide",
     "bonne_humeur", "confiant", "relaxation", "zen", "sexuel", "aventureux",
     "energique", "sportif", "joueur", "festif", "intellectuel", "creatif",
     "mysterieux", "gourmand"}

DefaultMood == "bonne_humeur"

DefaultMoodExpiryHours == 24

DefaultSearchRadius == 10000

DefaultAgeMin == 18

DefaultAgeMax == 35

DefaultLimit == 50

\* 365.25 * 24 * 60 * 60 * 1000 ms, in hours.
HoursPerYear == 8766

-----------------------------------------------------------------------------
(* JavaScript values.  An optional value is a sequence: <<>> when the      *)
(* property is undefined, <<v>> when it holds v.                           *)

Undefined == <<>>

Some(v) == <<v>>

\* Destructuring default `{ x = d } = options`: d only when x is undefined.
DefaultTo(opt, d) == IF opt = Undefined THEN d ELSE opt[1]

\* `a || d` on numbers: d when a is falsy (0).
OrElse(a, d) == IF a = 0 THEN d ELSE a

\* Array.prototype.includes
Includes(arr, x) == \E i \in 1..Len(arr) : arr[i] = x

-----------------------------------------------------------------------------
(* Date: proleptic Gregorian calendar over a count of days since the epoch. *)

DaysFromCivil(y, m, d) ==
    LET yy  == IF m <= 2 THEN y - 1 ELSE y
        era == yy \div 400
        yoe == yy - era * 400
        mp  == (m + 9) % 12
        doy == (153 * mp + 2) \div 5 + d - 1
        doe == yoe * 365 + yoe \div 4 - yoe \div 100 + doy
    IN  era * 146097 + doe - 719468

CivilFromDays(z) ==
    LET zz  == z + 719468
        era == zz \div 146097
        doe == zz - era * 146097
        yoe == (doe - doe \div 1460 + doe \div 36524 - doe \div 146096) \div 365
        doy == doe - (365 * yoe + yoe \div 4 - yoe \div 100)
        mp  == (5 * doy + 2) \div 153
        d   == doy - (153 * mp + 2) \div 5 + 1
        m   == IF mp < 10 THEN mp + 3 ELSE mp - 9
        y   == yoe + era * 400 + (IF m <= 2 THEN 1 ELSE 0)
    IN  [year |-> y, month |-> m, day |-> d]

\* now.getFullYear(), now.getMonth() (0-based), now.getDate()
GetFullYear(t) == CivilFromDays(t \div 24).year

GetMonth(t) == CivilFromDays(t \div 24).month - 1

GetDate(t) == CivilFromDays(t \div 24).day

\* new Date(year, monthIndex, day): midnight of that day; a day past the
\* month's end rolls over into the next month, and a year from 0 to 99 is
\* read as 1900 + year.
NewDate(year, monthIndex, day) ==
    LET fullYear == IF year \in 0..99 THEN 1900 + year ELSE year
    IN  24 * DaysFromCivil(fullYear, monthIndex + 1, day)

-----------------------------------------------------------------------------
(* genderIdentity and isGenderCompatibleWith.                              *)

\* Arrays over the interestedIn enumeration, up to MaxInterestedIn entries.
InterestedInArrays ==
    UNION {[1..n -> InterestedInEnum] : n \in 0..MaxInterestedIn}

GenderIdentities ==
    [myGender : GenderEnum, interestedIn : InterestedInArrays]

\* A plausible slip: the wildcard 'tous' is not honoured.
IsGenderCompatibleWithNoWildcard(this, otherUser) ==
    /\ Includes(this.interestedIn, otherUser.myGender)
    /\ Includes(otherUser.interestedIn, this.myGender)

\* A plausible slip: only the caller's interest is looked at.
IsGenderCompatibleWithOneWay(this, otherUser) ==
    \/ Includes(this.interestedIn, otherUser.myGender)
    \/ Includes(this.interestedIn, "tous")

\* this, otherUser: the two users' genderIdentity.
IsGenderCompatibleWith(this, otherUser) ==
    LET myInterestedIn    == this.interestedIn
        otherInterestedIn == otherUser.interestedIn
        iAmInterestedInThem ==
            \/ Includes(myInterestedIn, otherUser.myGender)
            \/ Includes(myInterestedIn, "tous")
        theyAreInterestedInMe ==
            \/ Includes(otherInterestedIn, this.myGender)
            \/ Includes(otherInterestedIn, "tous")
    IN  iAmInterestedInThem /\ theyAreInterestedInMe

\* The record of a call this.isGenderCompatibleWith(other): status is
\* "ready" before the call, "done" after it, "off" where none is made.
NoCall ==
    [status |-> "off",
     this   |-> [myGender |-> "homme", interestedIn |-> <<>>],
     other  |-> [myGender |-> "homme", interestedIn |-> <<>>],
     ret    |-> FALSE]

\* a.isGenderCompatibleWith(b), for any two gender identities.
CallIsGenderCompatibleWith ==
    /\ compat.status = "ready"
    /\ \E a \in GenderIdentities, b \in GenderIdentities :
          compat' = [status |-> "done", this |-> a, other |-> b,
                     ret |-> IsGenderCompatibleWith(a, b)]
    /\ UNCHANGED <<users, now, result, distance>>

-----------------------------------------------------------------------------
(* Locations and great-circle distances.                                   *)

Paris == <<235, 4885>>

ParisNear == <<236, 4886>>

Far == <<1000, 5000>>

\* The schema default of location.coordinates.
DefaultCoordinates == <<0, 0>>

\* A location object: set is FALSE when the object is missing (null or
\* undefined); coordinates is <<>> when the array is missing.
Location(c) == [set |-> TRUE, coordinates |-> c]

NoLocation == [set |-> FALSE, coordinates |-> <<>>]

\* Haversine distance in metres (R = 6371000, rounded) between the points
\* the model uses.
Haversine(p, q) ==
    CASE p = q -> 0
      [] {p, q} = {Paris, ParisNear} -> 1331
      [] {p, q} = {Paris, Far} -> 567601
      [] {p, q} = {ParisNear, Far} -> 566593
      [] {p, q} = {Paris, DefaultCoordinates} -> 5436553
      [] {p, q} = {ParisNear, DefaultCoordinates} -> 5437703
      [] {p, q} = {Far, DefaultCoordinates} -> 5640535

-----------------------------------------------------------------------------
(* User documents.                                                         *)

\* The age virtual, at time t.
Age(user, t) == (t - user.dateOfBirth) \div HoursPerYear

MoodEntry(mood, timestamp, c) ==
    [mood |-> mood, timestamp |-> timestamp, location |-> Location(c)]

\* 2026-10-30T12:00Z
Noon == NewDate(2026, 9, 30) + 12

\* 2026-10-30T00:00Z
Midnight == NewDate(2026, 9, 30)

\* A stored password: the text the client chose and the number of times
\* bcrypt.hash was applied to it (0: the plaintext itself).
Plain(text) == [text |-> text, hashes |-> 0]

\* bcrypt.hash(password, salt)
BcryptHash(password) == [password EXCEPT !.hashes = @ + 1]

\* pre('save'): the password is hashed only when it was modified.
PreSavePassword(password, isModified) ==
    IF ~isModified THEN password ELSE BcryptHash(password)

\* The length of the passwords the model uses.
PasswordLength(text) ==
    CASE text = "motdepasse1" -> 11
      [] text = "nouveau-secret" -> 14
      [] text = "court" -> 5

\* password: minlength 8
MinPasswordLength == 8

\* A user document with the schema defaults where the profile sets nothing,
\* as stored by its first save.
NewUser(myGender, interestedIn, dateOfBirth, coordinates) ==
    [genderIdentity |-> [myGender |-> myGender, interestedIn |-> interestedIn],
     dateOfBirth    |-> dateOfBirth,
     moodSystem     |-> [currentMood     |-> DefaultMood,
                         moodHistory     |-> <<>>,
                         moodExpiryHours |-> DefaultMoodExpiryHours],
     location       |-> Location(coordinates),
     isActive       |-> TRUE,
     isBanned       |-> FALSE,
     password       |-> PreSavePassword(Plain("motdepasse1"), TRUE),
     lastSeen       |-> Midnight - 24,
     preferences    |-> [searchRadius |-> DefaultSearchRadius,
                         ageRange     |-> [min |-> DefaultAgeMin,
                                           max |-> DefaultAgeMax]]]

-----------------------------------------------------------------------------
(* distanceTo.                                                             *)

\* The outcome of this.distanceTo(otherUser): threw is TRUE when the call
\* raises a TypeError; ret is <<>> for null, <<d>> for d metres.
Return(value) == [threw |-> FALSE, ret |-> value]

TypeError == [threw |-> TRUE, ret |-> <<>>]

\* this.distanceTo(otherUser).  Reading .coordinates of a missing location
\* object raises; otherUser.location is read only when this.location has
\* coordinates.
DistanceTo(this, otherUser) ==
    IF ~this.location.set THEN TypeError
    ELSE IF Len(this.location.coordinates) = 0 THEN Return(<<>>)
    ELSE IF ~otherUser.location.set THEN TypeError
    ELSE IF Len(otherUser.location.coordinates) = 0 THEN Return(<<>>)
    ELSE Return(<<Haversine(this.location.coordinates,
                            otherUser.location.coordinates)>>)

\* Users with every kind of location: missing, without coordinates, at the
\* default [0, 0], and at a place.
DistanceUsers ==
    {[user EXCEPT !.location = l] :
        user \in {NewUser("homme", <<"femme">>, NewDate(1996, 5, 1), Paris),
                  NewUser("femme", <<"homme">>, NewDate(1998, 5, 1), Paris)},
        l \in {NoLocation, Location(<<>>), Location(DefaultCoordinates),
               Location(Paris), Location(ParisNear), Location(Far)}}

\* The record of a call this.distanceTo(other): status is "ready" before
\* the call, "done" after it, "off" where none is made.
NoDistance ==
    [status |-> "off",
     this   |-> NewUser("homme", <<>>, 0, DefaultCoordinates),
     other  |-> NewUser("homme", <<>>, 0, DefaultCoordinates),
     threw  |-> FALSE,
     ret    |-> <<>>]

\* a.distanceTo(b), for any two of these users.
CallDistanceTo ==
    /\ distance.status = "ready"
    /\ \E a \in DistanceUsers, b \in DistanceUsers :
          distance' = [status |-> "done",
                       this   |-> a,
                       other  |-> b,
                       threw  |-> DistanceTo(a, b).threw,
                       ret    |-> DistanceTo(a, b).ret]
    /\ UNCHANGED <<users, now, result, compat>>

-----------------------------------------------------------------------------
(* findCompatibleUsers.                                                    *)

\* JavaScript null, as the value of the mood option.
Null == "null"

NoOptions ==
    [maxDistance |-> Undefined, ageMin |-> Undefined, ageMax |-> Undefined,
     mood |-> Undefined, limit |-> Undefined]

\* The destructured options, each with its default.
ResolveOptions(user, options) ==
    [maxDistance |-> DefaultTo(options.maxDistance,
                        OrElse(user.preferences.searchRadius, DefaultSearchRadius)),
     ageMin      |-> DefaultTo(options.ageMin,
                        OrElse(user.preferences.ageRange.min, DefaultAgeMin)),
     ageMax      |-> DefaultTo(options.ageMax,
                        OrElse(user.preferences.ageRange.max, DefaultAgeMax)),
     mood        |-> DefaultTo(options.mood, Null),
     limit       |-> DefaultTo(options.limit, DefaultLimit)]

\* `if (mood)`: null and the empty string are falsy.
Truthy(mood) == mood # Null /\ mood # ""

\* A plausible slip: the mood filter is never added to the query.
MoodFilterDropped(mood) == Undefined

\* query['moodSystem.currentMood'], left undefined unless a mood is given.
MoodFilter(mood) == IF Truthy(mood) THEN Some(mood) ELSE Undefined

\* The query document built for requester id (document user) at time t.
BuildQuery(id, user, o, t) ==
    LET maxBirthDate == NewDate(GetFullYear(t) - o.ageMin, GetMonth(t), GetDate(t))
        minBirthDate == NewDate(GetFullYear(t) - o.ageMax, GetMonth(t), GetDate(t))
    IN  [ne          |-> id,
         isActive    |-> TRUE,
         isBanned    |-> FALSE,
         geometry    |-> user.location,
         maxDistance |-> o.maxDistance,
         dobGte      |-> minBirthDate,
         dobLte      |-> maxBirthDate,
         mood        |-> MoodFilter(o.mood)]

\* $near: a point to search around is needed.
ValidGeometry(g) == g.set /\ Len(g.coordinates) = 2

\* A plausible slip: the ban flag is not part of the query.
MatchesIgnoringBan(id, q) ==
    LET doc == users[id]
    IN  /\ id # q.ne
        /\ doc.isActive = q.isActive
        /\ ValidGeometry(doc.location)
        /\ Haversine(q.geometry.coordinates, doc.location.coordinates) <= q.maxDistance
        /\ doc.dateOfBirth >= q.dobGte
        /\ doc.dateOfBirth <= q.dobLte
        /\ (q.mood # Undefined => doc.moodSystem.currentMood = q.mood[1])

\* Whether the stored document id satisfies the query document q.
Matches(id, q) ==
    LET doc == users[id]
    IN  /\ id # q.ne
        /\ doc.isActive = q.isActive
        /\ doc.isBanned = q.isBanned
        /\ ValidGeometry(doc.location)
        /\ Haversine(q.geometry.coordinates, doc.location.coordinates) <= q.maxDistance
        /\ doc.dateOfBirth >= q.dobGte
        /\ doc.dateOfBirth <= q.dobLte
        /\ (q.mood # Undefined => doc.moodSystem.currentMood = q.mood[1])

\* .sort({ lastSeen: -1 }): every ordering of S by lastSeen descending (ties
\* in any order).
SortByLastSeenDesc(S) ==
    {s \in [1..Cardinality(S) -> S] :
        /\ \A i, j \in 1..Cardinality(S) : i # j => s[i] # s[j]
        /\ \A i, j \in 1..Cardinality(S) :
              i < j => users[s[i]].lastSeen >= users[s[j]].lastSeen}

\* A plausible slip: the cap is not applied.
LimitIgnored(s, n) == s

\* .limit(n) on the sorted cursor; the store reads a limit of 0 as no limit.
Limit(s, n) ==
    IF n = 0 \/ n >= Len(s) THEN s ELSE SubSeq(s, 1, n)

\* this.find(query).limit(limit).sort({ lastSeen: -1 }): the sequences the
\* store may return.
Find(q, limit) ==
    {Limit(s, limit) : s \in SortByLastSeenDesc({id \in Ids : Matches(id, q)})}

\* A call User.findCompatibleUsers(users[r], options) about to be made.
PendingQuery(r, options) ==
    [status    |-> "pending",
     requester |-> r,
     options   |-> options,
     resolved  |-> [maxDistance |-> 0, ageMin |-> 0, ageMax |-> 0,
                    mood |-> Null, limit |-> 0],
     query     |-> [ne |-> r, isActive |-> TRUE, isBanned |-> FALSE,
                    geometry |-> NoLocation, maxDistance |-> 0,
                    dobGte |-> 0, dobLte |-> 0, mood |-> Undefined],
     issued    |-> FALSE,
     error     |-> "none",
     docs      |-> <<>>]

\* No query is made.
NoResult ==
    [status    |-> "off",
     requester |-> 1,
     options   |-> NoOptions,
     resolved  |-> [maxDistance |-> 0, ageMin |-> 0, ageMax |-> 0,
                    mood |-> Null, limit |-> 0],
     query     |-> [ne |-> 1, isActive |-> TRUE, isBanned |-> FALSE,
                    geometry |-> NoLocation, maxDistance |-> 0,
                    dobGte |-> 0, dobLte |-> 0, mood |-> Undefined],
     issued    |-> FALSE,
     error     |-> "none",
     docs      |-> <<>>]

\* The pending call User.findCompatibleUsers(users[r], options) runs, and
\* the query it returns is executed.  The function itself raises nothing:
\* it builds the query and hands it to the store, which rejects a $near
\* without a point.
FindCompatibleUsers ==
    LET r       == result.requester
        options == result.options
        user    == users[r]
        o       == ResolveOptions(user, options)
        q       == BuildQuery(r, user, o, now)
    IN  /\ result.status = "pending"
        /\ \E docs \in (IF ValidGeometry(q.geometry) THEN Find(q, o.limit) ELSE {<<>>}) :
              result' = [status    |-> "done",
                         requester |-> r,
                         options   |-> options,
                         resolved  |-> o,
                         query     |-> q,
                         issued    |-> TRUE,
                         error     |-> IF ValidGeometry(q.geometry)
                                       THEN "none" ELSE "QueryError",
                         docs      |-> docs]
        /\ UNCHANGED <<users, now, compat, distance>>

-----------------------------------------------------------------------------
(* The profile routes (GET and PUT /api/users/me) and document saves.      *)

\* authMiddleware: the user a token resolves to; <<>> when the token is
\* missing or invalid or names no user (401).
AuthMiddleware(token) == IF token \in Ids THEN Some(token) ELSE Undefined

\* A request body: the paths it sets, each <<>> when the body leaves it out.
NoUpdates ==
    [currentMood |-> Undefined, moodHistory |-> Undefined,
     isBanned |-> Undefined, password |-> Undefined]

\* runValidators: the enum of moodSystem.currentMood and the minlength of
\* password, on the paths the update sets.
UpdateValid(updates) ==
    /\ updates.currentMood # Undefined => updates.currentMood[1] \in MoodEnum
    /\ updates.password # Undefined =>
          PasswordLength(updates.password[1]) >= MinPasswordLength

\* User.findByIdAndUpdate(id, updates): every path of the body is set as
\* given; no save middleware runs.
FindByIdAndUpdate(doc, updates) ==
    [doc EXCEPT
        !.moodSystem.currentMood =
            IF updates.currentMood = Undefined THEN @ ELSE updates.currentMood[1],
        !.moodSystem.moodHistory =
            IF updates.moodHistory = Undefined THEN @ ELSE updates.moodHistory[1],
        !.isBanned =
            IF updates.isBanned = Undefined THEN @ ELSE updates.isBanned[1],
        !.password =
            IF updates.password = Undefined THEN @ ELSE Plain(updates.password[1])]

\* The bodies clients send.
Bodies ==
    [currentMood : {Undefined, Some("zen"), Some("inconnu")},
     moodHistory : {Undefined, Some(<<>>)},
     isBanned    : {Undefined, Some(FALSE), Some(TRUE)},
     password    : {Undefined, Some("nouveau-secret"), Some("court")}]

\* Tokens: one per user, and 0 for a missing or invalid one.
Tokens == Ids \cup {0}

\* GET /api/users/me: reads the document, changes nothing.
GetMe(token) ==
    /\ UNCHANGED vars

\* PUT /api/users/me with body updates: 401 without a valid token, 400 and
\* no write when validation fails, else the update is written.
PutMe(token, updates) ==
    /\ users' =
          IF AuthMiddleware(token) = Undefined \/ ~UpdateValid(updates)
          THEN users
          ELSE [users EXCEPT ![token] = FindByIdAndUpdate(@, updates)]
    /\ UNCHANGED <<now, result, compat, distance>>

\* doc.password = text; doc.save(): validation, then the pre-save hook.
SavePassword(id, text) ==
    /\ users' =
          IF PasswordLength(text) < MinPasswordLength
          THEN users
          ELSE [users EXCEPT ![id].password = PreSavePassword(Plain(text), TRUE)]
    /\ UNCHANGED <<now, result, compat, distance>>

\* doc.save() of a loaded document whose password was not touched.
Save(id) ==
    /\ users' = [users EXCEPT ![id].password = PreSavePassword(@, FALSE)]
    /\ UNCHANGED <<now, result, compat, distance>>

-----------------------------------------------------------------------------
(* Store contents and option bundles the specifications draw from.         *)

\* The requester of the matching scenario: in Paris, radius 5000 m, ages
\* 25 to 35, born 1996-06-01.
Requester ==
    [NewUser("homme", <<"femme">>, NewDate(1996, 5, 1), Paris)
        EXCEPT !.preferences = [searchRadius |-> 5000,
                                ageRange |-> [min |-> 25, max |-> 35]]]

\* A candidate the requester is compatible with: nearby, born 1998-06-01.
Candidate == NewUser("femme", <<"homme">>, NewDate(1998, 5, 1), ParisNear)

GeneralProfiles ==
    {Requester,
     [Requester EXCEPT !.location = NoLocation],
     Candidate,
     [Candidate EXCEPT !.isBanned = TRUE],
     [Candidate EXCEPT !.isActive = FALSE],
     [Candidate EXCEPT !.genderIdentity.interestedIn = <<"femme">>],
     [Candidate EXCEPT !.location = Location(Far)]}

GeneralOptions ==
    {[NoOptions EXCEPT !.maxDistance = d] : d \in {Undefined, Some(600000)}}

\* Dates of birth around the bounds of the range 25..35 on 2026-10-30.
BirthDates ==
    {NewDate(2001, 10, 15),    \* 24 years and 11 months
     NewDate(2001, 9, 30),     \* 25 years to the day
     NewDate(1998, 5, 1),      \* 28 years
     NewDate(1991, 9, 30),     \* 35 years to the day
     NewDate(1991, 3, 15),     \* 35 years and 6 months
     NewDate(1986, 5, 1)}      \* 40 years

AgeProfiles ==
    {Requester,
     [Requester EXCEPT !.preferences.ageRange = [min |-> 40, max |-> 30]]}
    \cup {[Candidate EXCEPT !.dateOfBirth = d] : d \in BirthDates}

AgeOptions ==
    {[NoOptions EXCEPT !.ageMin = a, !.ageMax = b] :
        a \in {Undefined, Some(25), Some(40)}, b \in {Undefined, Some(35)}}

\* Current moods with the time they were declared.
WithMood(user, mood, timestamp) ==
    [user EXCEPT !.moodSystem.currentMood = mood,
                 !.moodSystem.moodHistory =
                     <<MoodEntry(mood, timestamp, user.location.coordinates)>>]

MoodProfiles ==
    {Requester,
     Candidate,
     WithMood(Candidate, "zen", Noon - 2),
     WithMood(Candidate, "zen", Noon - 24),
     WithMood(Candidate, "zen", Noon - 48),
     WithMood(Candidate, "festif", Noon - 2)}

MoodOptions ==
    {[NoOptions EXCEPT !.mood = m] :
        m \in {Undefined, Some(Null), Some("zen"), Some("festif")}}

LimitProfiles ==
    {Requester,
     [Candidate EXCEPT !.genderIdentity.interestedIn = <<"femme">>,
                       !.lastSeen = Noon - 1]}
    \cup {[Candidate EXCEPT !.lastSeen = Noon - h] : h \in {2, 3, 4}}

LimitOptions ==
    {[NoOptions EXCEPT !.limit = n] :
        n \in {Undefined, Some(0), Some(1), Some(2)}}

\* Requesters whose stored preferences hold 0, beside the scenario's.
DefaultsProfiles ==
    {Requester,
     Candidate,
     [Requester EXCEPT !.preferences.searchRadius = 0],
     [Requester EXCEPT !.preferences.ageRange.min = 0],
     [Requester EXCEPT !.preferences.ageRange.max = 0]}

DefaultsOptions ==
    {[NoOptions EXCEPT !.maxDistance = d, !.ageMin = a, !.ageMax = b] :
        d \in {Undefined, Some(0), Some(600000)},
        a \in {Undefined, Some(0), Some(30)},
        b \in {Undefined, Some(0), Some(30)}}

-----------------------------------------------------------------------------------------------------------------------------------------------------
(* Specifications.  Each starts with one call about to be made: the query  *)
(* and the compatibility test read the store and change nothing in it.     *)

Queries(optionBundles) ==
    {PendingQuery(r, options) : r \in Ids, options \in optionBundles}

\* Candidate queries over stores of active, banned, inactive, distant and
\* gender-incompatible users.
Init ==
    /\ users \in [Ids -> GeneralProfiles]
    /\ now = Noon
    /\ result \in Queries(GeneralOptions)
    /\ compat = NoCall
    /\ distance = NoDistance

Next == FindCompatibleUsers

Spec == Init /\ [][Next]_vars

\* Candidate queries over dates of birth around the age bounds.
InitAge ==
    /\ users \in [Ids -> AgeProfiles]
    /\ now \in {Midnight, Noon}
    /\ result \in Queries(AgeOptions)
    /\ compat = NoCall
    /\ distance = NoDistance

SpecAge == InitAge /\ [][Next]_vars

\* Candidate queries with and without a mood, over fresh and stale moods.
InitMood ==
    /\ users \in [Ids -> MoodProfiles]
    /\ now = Noon
    /\ result \in Queries(MoodOptions)
    /\ compat = NoCall
    /\ distance = NoDistance

SpecMood == InitMood /\ [][Next]_vars

\* Candidate queries with a limit, over users last seen at different times.
InitLimit ==
    /\ users \in [Ids -> LimitProfiles]
    /\ now = Noon
    /\ result \in Queries(LimitOptions)
    /\ compat = NoCall
    /\ distance = NoDistance

SpecLimit == InitLimit /\ [][Next]_vars

\* isGenderCompatibleWith over every pair of gender identities.
InitCompat ==
    /\ users = [id \in Ids |-> Requester]
    /\ now = Noon
    /\ result = NoResult
    /\ compat = [NoCall EXCEPT !.status = "ready"]
    /\ distance = NoDistance

NextCompat == CallIsGenderCompatibleWith

SpecCompat == InitCompat /\ [][NextCompat]_vars

\* Candidate queries with options omitted and supplied, over stored
\* preferences that may be 0.
InitDefaults ==
    /\ users \in [Ids -> DefaultsProfiles]
    /\ now = Noon
    /\ result \in Queries(DefaultsOptions)
    /\ compat = NoCall
    /\ distance = NoDistance

SpecDefaults == InitDefaults /\ [][Next]_vars

\* distanceTo over every pair of users with or without a location.
InitDistance ==
    /\ users = [id \in Ids |-> Requester]
    /\ now = Noon
    /\ result = NoResult
    /\ compat = NoCall
    /\ distance = [NoDistance EXCEPT !.status = "ready"]

NextDistance == CallDistanceTo

SpecDistance == InitDistance /\ [][NextDistance]_vars

\* Profile requests and saves on a store of users with a declared mood,
\* banned or not.
ProfileProfiles ==
    {WithMood(Candidate, "festif", Noon - 2),
     [WithMood(Candidate, "festif", Noon - 2) EXCEPT !.isBanned = TRUE]}

InitProfile ==
    /\ users \in [Ids -> ProfileProfiles]
    /\ now = Noon
    /\ result = NoResult
    /\ compat = NoCall
    /\ distance = NoDistance

NextProfile ==
    \/ \E token \in Tokens : GetMe(token)
    \/ \E token \in Tokens, updates \in Bodies : PutMe(token, updates)
    \/ \E id \in Ids : SavePassword(id, "nouveau-secret")
    \/ \E id \in Ids : SavePassword(id, "court")
    \/ \E id \in Ids : Save(id)

SpecProfile == InitProfile /\ [][NextProfile]_vars

-----------------------------------------------------------------------------
(* Properties.                                                             *)

\* C1: a.isGenderCompatibleWith(b) is true exactly when b's gender or the
\* wildcard is among a's interests and a's gender or the wildcard is among
\* b's interests; an empty interestedIn on either side gives false, and a
\* wildcard on one side leaves the answer to the other side alone.
C1_CompatibleIffMutualInterest ==
    LET a == compat.this
        b == compat.other
        Interests(g) == {g.interestedIn[i] : i \in 1..Len(g.interestedIn)}
        InterestedIn(g, h) == h.myGender \in Interests(g) \/ "tous" \in Interests(g)
    IN  compat.status = "done" =>
          /\ compat.ret <=> (InterestedIn(a, b) /\ InterestedIn(b, a))
          /\ (Interests(a) = {} \/ Interests(b) = {}) => ~compat.ret
          /\ "tous" \in Interests(a) => (compat.ret <=> InterestedIn(b, a))
          /\ "tous" \in Interests(b) => (compat.ret <=> InterestedIn(a, b))

\* C1 witness: a wildcard accepts a gender no interest names, and the other
\* side names the caller's gender.
C1_Witness ==
    /\ compat.status = "done"
    /\ compat.ret
    /\ compat.this.interestedIn = <<"tous">>
    /\ compat.other.myGender = "prefere_ne_pas_dire"
    /\ compat.other.interestedIn = <<compat.this.myGender>>

\* C2: gender compatibility is symmetric: the answer of a call with the two
\* users swapped is the same.
C2_CompatibilitySymmetric ==
    compat.status = "done" =>
        compat.ret = IsGenderCompatibleWith(compat.other, compat.this)

\* C2 witness: a call where only the caller is interested, answered false.
C2_Witness ==
    /\ compat.status = "done"
    /\ ~compat.ret
    /\ Includes(compat.this.interestedIn, compat.other.myGender)
    /\ ~Includes(compat.other.interestedIn, compat.this.myGender)
    /\ ~Includes(compat.other.interestedIn, "tous")

\* C3: the returned sequence never holds the requester, an inactive user or
\* a banned user.
C3_NoRequesterInactiveOrBanned ==
    result.status = "done" =>
        \A i \in 1..Len(result.docs) :
            /\ result.docs[i] # result.requester
            /\ users[result.docs[i]].isActive
            /\ ~users[result.docs[i]].isBanned

\* C3 witness: a query that returns a candidate while the store holds a
\* banned user who is otherwise the same candidate.
C3_Witness ==
    /\ result.status = "done"
    /\ result.error = "none"
    /\ Len(result.docs) >= 1
    /\ users[result.requester] = Requester
    /\ \E id \in Ids : users[id] = [Candidate EXCEPT !.isBanned = TRUE]

\* C4 (as claimed): a candidate who passes every other predicate is
\* returned exactly when its age lies in [ageMin, ageMax].
C4_AgeRangeInclusive ==
    (result.status = "done" /\ result.error = "none") =>
        \A id \in Ids :
            Matches(id, [result.query EXCEPT !.dobGte = users[id].dateOfBirth,
                                             !.dobLte = users[id].dateOfBirth])
            => ((\E i \in 1..Len(result.docs) : result.docs[i] = id)
                <=> (/\ Age(users[id], now) >= result.resolved.ageMin
                     /\ Age(users[id], now) <= result.resolved.ageMax))

\* C5 (as claimed): every returned candidate is gender-compatible with the
\* requester.
C5_ReturnedAreCompatible ==
    result.status = "done" =>
        \A i \in 1..Len(result.docs) :
            IsGenderCompatibleWith(users[result.requester].genderIdentity,
                                   users[result.docs[i]].genderIdentity)

\* C6: with a mood supplied every returned candidate is in that mood; with
\* the mood omitted or null every user passing the other predicates is
\* returned, whatever its mood.
C6_MoodFilter ==
    LET supplied == result.options.mood \notin {Undefined, Some(Null)}
        returned == {result.docs[i] : i \in 1..Len(result.docs)}
    IN  (result.status = "done" /\ result.error = "none") =>
          IF supplied
          THEN \A id \in returned :
                   users[id].moodSystem.currentMood = result.options.mood[1]
          ELSE \A id \in Ids :
                   Matches(id, [result.query EXCEPT !.mood = Undefined])
                   => id \in returned

\* C6 witness: a query for "zen" that returns a candidate and leaves out an
\* otherwise eligible candidate in another mood.
C6_Witness ==
    /\ result.status = "done"
    /\ result.options.mood = Some("zen")
    /\ Len(result.docs) >= 1
    /\ \E id \in Ids :
          /\ users[id].moodSystem.currentMood = "festif"
          /\ Matches(id, [result.query EXCEPT !.mood = Undefined])
          /\ \A i \in 1..Len(result.docs) : result.docs[i] # id

\* C7 (as claimed): the result is ordered by lastSeen descending and holds
\* at most limit candidates (50 when limit is omitted).
C7_SortedAndAtMostLimit ==
    (result.status = "done" /\ result.error = "none") =>
        /\ \A i, j \in 1..Len(result.docs) :
              i < j => users[result.docs[i]].lastSeen >= users[result.docs[j]].lastSeen
        /\ Len(result.docs) <= DefaultTo(result.options.limit, 50)

\* C7 (amended): the result is ordered by lastSeen descending; with a limit
\* of at least 1 (50 when omitted) it holds at most limit candidates, the
\* most recently seen of those matching the storage predicates, whatever
\* their gender compatibility; a limit of 0 caps nothing.
C7_SortedAndCappedByPositiveLimit ==
    LET limit    == DefaultTo(result.options.limit, 50)
        returned == {result.docs[i] : i \in 1..Len(result.docs)}
        matching == {id \in Ids : Matches(id, result.query)}
    IN  (result.status = "done" /\ result.error = "none") =>
          /\ \A i, j \in 1..Len(result.docs) :
                i < j => users[result.docs[i]].lastSeen >= users[result.docs[j]].lastSeen
          /\ returned \subseteq matching
          /\ Cardinality(returned) = Len(result.docs)
          /\ limit >= 1 =>
                /\ Len(result.docs) <= limit
                /\ \A id \in matching \ returned :
                      /\ Len(result.docs) = limit
                      /\ \A k \in returned : users[k].lastSeen >= users[id].lastSeen
          /\ limit = 0 => returned = matching

\* C7 witness: with limit 1 the one user returned is not compatible with
\* the requester, while a compatible matching user is left out.
C7_Witness ==
    /\ result.status = "done"
    /\ result.options.limit = Some(1)
    /\ Len(result.docs) = 1
    /\ ~IsGenderCompatibleWith(users[result.requester].genderIdentity,
                               users[result.docs[1]].genderIdentity)
    /\ \E id \in Ids :
          /\ id # result.docs[1]
          /\ Matches(id, result.query)
          /\ IsGenderCompatibleWith(users[result.requester].genderIdentity,
                                    users[id].genderIdentity)

\* C8 (as claimed): a mood-filtered query never returns a candidate whose
\* mood was declared more than its moodExpiryHours ago.
C8_NoStaleMoodReturned ==
    (result.status = "done" /\ result.options.mood \notin {Undefined, Some(Null)}) =>
        \A i \in 1..Len(result.docs) :
            LET m == users[result.docs[i]].moodSystem
            IN  Len(m.moodHistory) > 0 =>
                  now - m.moodHistory[Len(m.moodHistory)].timestamp
                      <= m.moodExpiryHours

\* C9 (as claimed): a requester without a location makes the query fail
\* with InvalidQueryState before any storage read.
C9_NoLocationIsInvalidQueryState ==
    (result.status = "done" /\ ~users[result.requester].location.set) =>
        /\ result.error = "InvalidQueryState"
        /\ ~result.issued

\* C10 (as claimed): ageMin > ageMax after defaulting makes the query fail
\* with InvalidRange instead of running the storage query.
C10_InvertedRangeIsInvalidRange ==
    (result.status = "done" /\ result.resolved.ageMin > result.resolved.ageMax) =>
        /\ result.error = "InvalidRange"
        /\ ~result.issued

\* C11 (as claimed): an omitted maxDistance, ageMin or ageMax is replaced
\* by the requester's stored preference, whatever its value (0 included);
\* a supplied one is used as it is; limit defaults to 50 and mood to no
\* filter.
C11_OmittedOptionIsStoredPreference ==
    LET preferences == users[result.requester].preferences
        Used(option, stored, used) ==
            used = (IF option = Undefined THEN stored ELSE option[1])
    IN  result.status = "done" =>
          /\ Used(result.options.maxDistance, preferences.searchRadius,
                  result.query.maxDistance)
          /\ Used(result.options.ageMin, preferences.ageRange.min,
                  result.resolved.ageMin)
          /\ Used(result.options.ageMax, preferences.ageRange.max,
                  result.resolved.ageMax)
          /\ result.options.limit = Undefined => result.resolved.limit = 50
          /\ result.options.mood = Undefined => result.query.mood = Undefined

\* C13 (as claimed): distanceTo never throws; it returns null when either
\* user's location object or coordinates are missing, and a number when
\* both have coordinates, the default [0, 0] included.
C13_DistanceToNeverThrows ==
    LET Absent(user) == ~user.location.set \/ Len(user.location.coordinates) = 0
    IN  distance.status = "done" =>
          /\ ~distance.threw
          /\ (Absent(distance.this) \/ Absent(distance.other))
                => distance.ret = <<>>
          /\ (~Absent(distance.this) /\ ~Absent(distance.other))
                => Len(distance.ret) = 1

\* C12 (as claimed): moodHistory is append-only: every step leaves the old
\* history as a prefix of the new one, and a step that changes currentMood
\* appends one entry for the new mood.
C12_MoodHistoryAppendOnly ==
    [][\A id \in Ids :
          LET old == users[id].moodSystem
              new == users'[id].moodSystem
          IN  /\ Len(old.moodHistory) <= Len(new.moodHistory)
              /\ SubSeq(new.moodHistory, 1, Len(old.moodHistory)) = old.moodHistory
              /\ new.currentMood # old.currentMood =>
                    /\ Len(new.moodHistory) = Len(old.moodHistory) + 1
                    /\ new.moodHistory[Len(new.moodHistory)].mood = new.currentMood]_vars

\* C14 (as claimed): no request to the profile endpoints changes a user's
\* isBanned.
C14_BanStateUnchangedByProfileRequests ==
    [][\A id \in Ids : users'[id].isBanned = users[id].isBanned]_vars

\* C15 (as claimed): the stored password is always a bcrypt hash of the
\* client's text, hashed once: never the plaintext, never a hash of a hash.
C15_PasswordStoredHashedOnce ==
    \A id \in Ids : users[id].password.hashes = 1

====
